---------------------------- MODULE Spec2Model ----------------------------
(***************************************************************************)
(* The three XML comparison scripts of compare-script/:                    *)
(*   compare_same_xml_files.py          the plain comparison report        *)
(*   compare_same_xml_files_colored.py  the visual comparison report       *)
(*   compare_xml_ids.py                 the ID-only comparison             *)
(*                                                                         *)
(* A Python str is a sequence of one-character strings (<<"1","0">> is     *)
(* "10"), so that strip(), int(), lower() and replace() are computed and   *)
(* not assumed.  Python's None is the value None below.                    *)
(***************************************************************************)
EXTENDS Integers, Sequences, FiniteSets, TLC

\* The number of <t> elements of one input file is at most MaxElems.
MaxElems == 2

\* compare_same_xml_files_colored.py, line 69: texts shorter than this are
\* shown side by side.
ShortTextLimit == 50

\* Python's None; no str is equal to it (a str holds one-character strings).
None == <<"None">>

---------------------------------------------------------------------------
(* str methods and int()                                                   *)

\* A character is a one-element string when it is printable ASCII, the
\* space or one of "\t", "\n", "\r", "\f"; any other character, and the
\* backquote, is written by its code point: "<U+00A0>", "<U+0060>".

\* The characters str.strip() removes: those str.isspace() holds of.
Whitespace ==
  {" ", "\t", "\n", "\r", "\f", "<U+000B>",
   "<U+001C>", "<U+001D>", "<U+001E>", "<U+001F>",
   "<U+0085>", "<U+00A0>", "<U+1680>",
   "<U+2000>", "<U+2001>", "<U+2002>", "<U+2003>", "<U+2004>", "<U+2005>",
   "<U+2006>", "<U+2007>", "<U+2008>", "<U+2009>", "<U+200A>",
   "<U+2028>", "<U+2029>", "<U+202F>", "<U+205F>", "<U+3000>"}

\* The characters int() skips around a literal: the whitespace without the
\* four separators U+001C to U+001F.
IntWhitespace ==
  Whitespace \ {"<U+001C>", "<U+001D>", "<U+001E>", "<U+001F>"}

\* The decimal digits int() accepts: every character of the category Nd,
\* one row per script, each row in the order of the values 0 to 9.
DecimalDigits == <<
  <<"0", "1", "2", "3", "4", "5", "6", "7", "8", "9">>,
  <<"<U+0660>", "<U+0661>", "<U+0662>", "<U+0663>", "<U+0664>",
    "<U+0665>", "<U+0666>", "<U+0667>", "<U+0668>", "<U+0669>">>,
  <<"<U+06F0>", "<U+06F1>", "<U+06F2>", "<U+06F3>", "<U+06F4>",
    "<U+06F5>", "<U+06F6>", "<U+06F7>", "<U+06F8>", "<U+06F9>">>,
  <<"<U+07C0>", "<U+07C1>", "<U+07C2>", "<U+07C3>", "<U+07C4>",
    "<U+07C5>", "<U+07C6>", "<U+07C7>", "<U+07C8>", "<U+07C9>">>,
  <<"<U+0966>", "<U+0967>", "<U+0968>", "<U+0969>", "<U+096A>",
    "<U+096B>", "<U+096C>", "<U+096D>", "<U+096E>", "<U+096F>">>,
  <<"<U+09E6>", "<U+09E7>", "<U+09E8>", "<U+09E9>", "<U+09EA>",
    "<U+09EB>", "<U+09EC>", "<U+09ED>", "<U+09EE>", "<U+09EF>">>,
  <<"<U+0A66>", "<U+0A67>", "<U+0A68>", "<U+0A69>", "<U+0A6A>",
    "<U+0A6B>", "<U+0A6C>", "<U+0A6D>", "<U+0A6E>", "<U+0A6F>">>,
  <<"<U+0AE6>", "<U+0AE7>", "<U+0AE8>", "<U+0AE9>", "<U+0AEA>",
    "<U+0AEB>", "<U+0AEC>", "<U+0AED>", "<U+0AEE>", "<U+0AEF>">>,
  <<"<U+0B66>", "<U+0B67>", "<U+0B68>", "<U+0B69>", "<U+0B6A>",
    "<U+0B6B>", "<U+0B6C>", "<U+0B6D>", "<U+0B6E>", "<U+0B6F>">>,
  <<"<U+0BE6>", "<U+0BE7>", "<U+0BE8>", "<U+0BE9>", "<U+0BEA>",
    "<U+0BEB>", "<U+0BEC>", "<U+0BED>", "<U+0BEE>", "<U+0BEF>">>,
  <<"<U+0C66>", "<U+0C67>", "<U+0C68>", "<U+0C69>", "<U+0C6A>",
    "<U+0C6B>", "<U+0C6C>", "<U+0C6D>", "<U+0C6E>", "<U+0C6F>">>,
  <<"<U+0CE6>", "<U+0CE7>", "<U+0CE8>", "<U+0CE9>", "<U+0CEA>",
    "<U+0CEB>", "<U+0CEC>", "<U+0CED>", "<U+0CEE>", "<U+0CEF>">>,
  <<"<U+0D66>", "<U+0D67>", "<U+0D68>", "<U+0D69>", "<U+0D6A>",
    "<U+0D6B>", "<U+0D6C>", "<U+0D6D>", "<U+0D6E>", "<U+0D6F>">>,
  <<"<U+0DE6>", "<U+0DE7>", "<U+0DE8>", "<U+0DE9>", "<U+0DEA>",
    "<U+0DEB>", "<U+0DEC>", "<U+0DED>", "<U+0DEE>", "<U+0DEF>">>,
  <<"<U+0E50>", "<U+0E51>", "<U+0E52>", "<U+0E53>", "<U+0E54>",
    "<U+0E55>", "<U+0E56>", "<U+0E57>", "<U+0E58>", "<U+0E59>">>,
  <<"<U+0ED0>", "<U+0ED1>", "<U+0ED2>", "<U+0ED3>", "<U+0ED4>",
    "<U+0ED5>", "<U+0ED6>", "<U+0ED7>", "<U+0ED8>", "<U+0ED9>">>,
  <<"<U+0F20>", "<U+0F21>", "<U+0F22>", "<U+0F23>", "<U+0F24>",
    "<U+0F25>", "<U+0F26>", "<U+0F27>", "<U+0F28>", "<U+0F29>">>,
  <<"<U+1040>", "<U+1041>", "<U+1042>", "<U+1043>", "<U+1044>",
    "<U+1045>", "<U+1046>", "<U+1047>", "<U+1048>", "<U+1049>">>,
  <<"<U+1090>", "<U+1091>", "<U+1092>", "<U+1093>", "<U+1094>",
    "<U+1095>", "<U+1096>", "<U+1097>", "<U+1098>", "<U+1099>">>,
  <<"<U+17E0>", "<U+17E1>", "<U+17E2>", "<U+17E3>", "<U+17E4>",
    "<U+17E5>", "<U+17E6>", "<U+17E7>", "<U+17E8>", "<U+17E9>">>,
  <<"<U+1810>", "<U+1811>", "<U+1812>", "<U+1813>", "<U+1814>",
    "<U+1815>", "<U+1816>", "<U+1817>", "<U+1818>", "<U+1819>">>,
  <<"<U+1946>", "<U+1947>", "<U+1948>", "<U+1949>", "<U+194A>",
    "<U+194B>", "<U+194C>", "<U+194D>", "<U+194E>", "<U+194F>">>,
  <<"<U+19D0>", "<U+19D1>", "<U+19D2>", "<U+19D3>", "<U+19D4>",
    "<U+19D5>", "<U+19D6>", "<U+19D7>", "<U+19D8>", "<U+19D9>">>,
  <<"<U+1A80>", "<U+1A81>", "<U+1A82>", "<U+1A83>", "<U+1A84>",
    "<U+1A85>", "<U+1A86>", "<U+1A87>", "<U+1A88>", "<U+1A89>">>,
  <<"<U+1A90>", "<U+1A91>", "<U+1A92>", "<U+1A93>", "<U+1A94>",
    "<U+1A95>", "<U+1A96>", "<U+1A97>", "<U+1A98>", "<U+1A99>">>,
  <<"<U+1B50>", "<U+1B51>", "<U+1B52>", "<U+1B53>", "<U+1B54>",
    "<U+1B55>", "<U+1B56>", "<U+1B57>", "<U+1B58>", "<U+1B59>">>,
  <<"<U+1BB0>", "<U+1BB1>", "<U+1BB2>", "<U+1BB3>", "<U+1BB4>",
    "<U+1BB5>", "<U+1BB6>", "<U+1BB7>", "<U+1BB8>", "<U+1BB9>">>,
  <<"<U+1C40>", "<U+1C41>", "<U+1C42>", "<U+1C43>", "<U+1C44>",
    "<U+1C45>", "<U+1C46>", "<U+1C47>", "<U+1C48>", "<U+1C49>">>,
  <<"<U+1C50>", "<U+1C51>", "<U+1C52>", "<U+1C53>", "<U+1C54>",
    "<U+1C55>", "<U+1C56>", "<U+1C57>", "<U+1C58>", "<U+1C59>">>,
  <<"<U+A620>", "<U+A621>", "<U+A622>", "<U+A623>", "<U+A624>",
    "<U+A625>", "<U+A626>", "<U+A627>", "<U+A628>", "<U+A629>">>,
  <<"<U+A8D0>", "<U+A8D1>", "<U+A8D2>", "<U+A8D3>", "<U+A8D4>",
    "<U+A8D5>", "<U+A8D6>", "<U+A8D7>", "<U+A8D8>", "<U+A8D9>">>,
  <<"<U+A900>", "<U+A901>", "<U+A902>", "<U+A903>", "<U+A904>",
    "<U+A905>", "<U+A906>", "<U+A907>", "<U+A908>", "<U+A909>">>,
  <<"<U+A9D0>", "<U+A9D1>", "<U+A9D2>", "<U+A9D3>", "<U+A9D4>",
    "<U+A9D5>", "<U+A9D6>", "<U+A9D7>", "<U+A9D8>", "<U+A9D9>">>,
  <<"<U+A9F0>", "<U+A9F1>", "<U+A9F2>", "<U+A9F3>", "<U+A9F4>",
    "<U+A9F5>", "<U+A9F6>", "<U+A9F7>", "<U+A9F8>", "<U+A9F9>">>,
  <<"<U+AA50>", "<U+AA51>", "<U+AA52>", "<U+AA53>", "<U+AA54>",
    "<U+AA55>", "<U+AA56>", "<U+AA57>", "<U+AA58>", "<U+AA59>">>,
  <<"<U+ABF0>", "<U+ABF1>", "<U+ABF2>", "<U+ABF3>", "<U+ABF4>",
    "<U+ABF5>", "<U+ABF6>", "<U+ABF7>", "<U+ABF8>", "<U+ABF9>">>,
  <<"<U+FF10>", "<U+FF11>", "<U+FF12>", "<U+FF13>", "<U+FF14>",
    "<U+FF15>", "<U+FF16>", "<U+FF17>", "<U+FF18>", "<U+FF19>">>,
  <<"<U+104A0>", "<U+104A1>", "<U+104A2>", "<U+104A3>", "<U+104A4>",
    "<U+104A5>", "<U+104A6>", "<U+104A7>", "<U+104A8>", "<U+104A9>">>,
  <<"<U+10D30>", "<U+10D31>", "<U+10D32>", "<U+10D33>", "<U+10D34>",
    "<U+10D35>", "<U+10D36>", "<U+10D37>", "<U+10D38>", "<U+10D39>">>,
  <<"<U+11066>", "<U+11067>", "<U+11068>", "<U+11069>", "<U+1106A>",
    "<U+1106B>", "<U+1106C>", "<U+1106D>", "<U+1106E>", "<U+1106F>">>,
  <<"<U+110F0>", "<U+110F1>", "<U+110F2>", "<U+110F3>", "<U+110F4>",
    "<U+110F5>", "<U+110F6>", "<U+110F7>", "<U+110F8>", "<U+110F9>">>,
  <<"<U+11136>", "<U+11137>", "<U+11138>", "<U+11139>", "<U+1113A>",
    "<U+1113B>", "<U+1113C>", "<U+1113D>", "<U+1113E>", "<U+1113F>">>,
  <<"<U+111D0>", "<U+111D1>", "<U+111D2>", "<U+111D3>", "<U+111D4>",
    "<U+111D5>", "<U+111D6>", "<U+111D7>", "<U+111D8>", "<U+111D9>">>,
  <<"<U+112F0>", "<U+112F1>", "<U+112F2>", "<U+112F3>", "<U+112F4>",
    "<U+112F5>", "<U+112F6>", "<U+112F7>", "<U+112F8>", "<U+112F9>">>,
  <<"<U+11450>", "<U+11451>", "<U+11452>", "<U+11453>", "<U+11454>",
    "<U+11455>", "<U+11456>", "<U+11457>", "<U+11458>", "<U+11459>">>,
  <<"<U+114D0>", "<U+114D1>", "<U+114D2>", "<U+114D3>", "<U+114D4>",
    "<U+114D5>", "<U+114D6>", "<U+114D7>", "<U+114D8>", "<U+114D9>">>,
  <<"<U+11650>", "<U+11651>", "<U+11652>", "<U+11653>", "<U+11654>",
    "<U+11655>", "<U+11656>", "<U+11657>", "<U+11658>", "<U+11659>">>,
  <<"<U+116C0>", "<U+116C1>", "<U+116C2>", "<U+116C3>", "<U+116C4>",
    "<U+116C5>", "<U+116C6>", "<U+116C7>", "<U+116C8>", "<U+116C9>">>,
  <<"<U+11730>", "<U+11731>", "<U+11732>", "<U+11733>", "<U+11734>",
    "<U+11735>", "<U+11736>", "<U+11737>", "<U+11738>", "<U+11739>">>,
  <<"<U+118E0>", "<U+118E1>", "<U+118E2>", "<U+118E3>", "<U+118E4>",
    "<U+118E5>", "<U+118E6>", "<U+118E7>", "<U+118E8>", "<U+118E9>">>,
  <<"<U+11950>", "<U+11951>", "<U+11952>", "<U+11953>", "<U+11954>",
    "<U+11955>", "<U+11956>", "<U+11957>", "<U+11958>", "<U+11959>">>,
  <<"<U+11C50>", "<U+11C51>", "<U+11C52>", "<U+11C53>", "<U+11C54>",
    "<U+11C55>", "<U+11C56>", "<U+11C57>", "<U+11C58>", "<U+11C59>">>,
  <<"<U+11D50>", "<U+11D51>", "<U+11D52>", "<U+11D53>", "<U+11D54>",
    "<U+11D55>", "<U+11D56>", "<U+11D57>", "<U+11D58>", "<U+11D59>">>,
  <<"<U+11DA0>", "<U+11DA1>", "<U+11DA2>", "<U+11DA3>", "<U+11DA4>",
    "<U+11DA5>", "<U+11DA6>", "<U+11DA7>", "<U+11DA8>", "<U+11DA9>">>,
  <<"<U+16A60>", "<U+16A61>", "<U+16A62>", "<U+16A63>", "<U+16A64>",
    "<U+16A65>", "<U+16A66>", "<U+16A67>", "<U+16A68>", "<U+16A69>">>,
  <<"<U+16AC0>", "<U+16AC1>", "<U+16AC2>", "<U+16AC3>", "<U+16AC4>",
    "<U+16AC5>", "<U+16AC6>", "<U+16AC7>", "<U+16AC8>", "<U+16AC9>">>,
  <<"<U+16B50>", "<U+16B51>", "<U+16B52>", "<U+16B53>", "<U+16B54>",
    "<U+16B55>", "<U+16B56>", "<U+16B57>", "<U+16B58>", "<U+16B59>">>,
  <<"<U+1D7CE>", "<U+1D7CF>", "<U+1D7D0>", "<U+1D7D1>", "<U+1D7D2>",
    "<U+1D7D3>", "<U+1D7D4>", "<U+1D7D5>", "<U+1D7D6>", "<U+1D7D7>">>,
  <<"<U+1D7D8>", "<U+1D7D9>", "<U+1D7DA>", "<U+1D7DB>", "<U+1D7DC>",
    "<U+1D7DD>", "<U+1D7DE>", "<U+1D7DF>", "<U+1D7E0>", "<U+1D7E1>">>,
  <<"<U+1D7E2>", "<U+1D7E3>", "<U+1D7E4>", "<U+1D7E5>", "<U+1D7E6>",
    "<U+1D7E7>", "<U+1D7E8>", "<U+1D7E9>", "<U+1D7EA>", "<U+1D7EB>">>,
  <<"<U+1D7EC>", "<U+1D7ED>", "<U+1D7EE>", "<U+1D7EF>", "<U+1D7F0>",
    "<U+1D7F1>", "<U+1D7F2>", "<U+1D7F3>", "<U+1D7F4>", "<U+1D7F5>">>,
  <<"<U+1D7F6>", "<U+1D7F7>", "<U+1D7F8>", "<U+1D7F9>", "<U+1D7FA>",
    "<U+1D7FB>", "<U+1D7FC>", "<U+1D7FD>", "<U+1D7FE>", "<U+1D7FF>">>,
  <<"<U+1E140>", "<U+1E141>", "<U+1E142>", "<U+1E143>", "<U+1E144>",
    "<U+1E145>", "<U+1E146>", "<U+1E147>", "<U+1E148>", "<U+1E149>">>,
  <<"<U+1E2F0>", "<U+1E2F1>", "<U+1E2F2>", "<U+1E2F3>", "<U+1E2F4>",
    "<U+1E2F5>", "<U+1E2F6>", "<U+1E2F7>", "<U+1E2F8>", "<U+1E2F9>">>,
  <<"<U+1E950>", "<U+1E951>", "<U+1E952>", "<U+1E953>", "<U+1E954>",
    "<U+1E955>", "<U+1E956>", "<U+1E957>", "<U+1E958>", "<U+1E959>">>,
  <<"<U+1FBF0>", "<U+1FBF1>", "<U+1FBF2>", "<U+1FBF3>", "<U+1FBF4>",
    "<U+1FBF5>", "<U+1FBF6>", "<U+1FBF7>", "<U+1FBF8>", "<U+1FBF9>">> >>

Digits ==
  {DecimalDigits[k][v] : k \in DOMAIN DecimalDigits, v \in 1..10}

DigitValues ==
  [c \in Digits |->
     CHOOSE v \in 0..9 : \E k \in DOMAIN DecimalDigits :
       DecimalDigits[k][v + 1] = c]

DigitVal(c) == DigitValues[c]

\* The longest run of digits int() converts (sys.get_int_max_str_digits(),
\* the interpreter's default); a longer one raises ValueError.
MaxStrDigits == 4300

RECURSIVE LStripOf(_, _)
LStripOf(s, chars) ==
  IF s # <<>> /\ Head(s) \in chars THEN LStripOf(Tail(s), chars) ELSE s

RECURSIVE RStripOf(_, _)
RStripOf(s, chars) ==
  IF s # <<>> /\ s[Len(s)] \in chars
  THEN RStripOf(SubSeq(s, 1, Len(s) - 1), chars)
  ELSE s

LStrip(s) == LStripOf(s, Whitespace)

RStrip(s) == RStripOf(s, Whitespace)

\* str.strip()
Strip(s) == RStrip(LStrip(s))

\* int() without its sign: the digits of a literal, single underscores
\* allowed between digits.
IsDigitRun(s) ==
  /\ s # <<>>
  /\ s[1] \in Digits
  /\ s[Len(s)] \in Digits
  /\ \A i \in 1..Len(s) : s[i] = "_" \/ s[i] \in Digits
  /\ \A i \in 1..(Len(s) - 1) : ~(s[i] = "_" /\ s[i + 1] = "_")

\* What int() is left with once it has skipped the whitespace around the
\* literal.
IntStrip(s) == RStripOf(LStripOf(s, IntWhitespace), IntWhitespace)

Unsigned(s) ==
  LET t == IntStrip(s) IN
  IF t # <<>> /\ t[1] \in {"+", "-"} THEN Tail(t) ELSE t

\* The number of digits of a run, its underscores left out.
DigitCount(s) == Cardinality({i \in DOMAIN s : s[i] # "_"})

\* int(s) raises ValueError exactly when this is false.
IsIntLiteral(s) ==
  /\ IsDigitRun(Unsigned(s))
  /\ DigitCount(Unsigned(s)) <= MaxStrDigits

RECURSIVE DigitsValue(_, _)
DigitsValue(s, acc) ==
  IF s = <<>> THEN acc
  ELSE IF Head(s) = "_" THEN DigitsValue(Tail(s), acc)
  ELSE DigitsValue(Tail(s), 10 * acc + DigitVal(Head(s)))

\* int(s), for a literal.
IntValue(s) ==
  LET t == IntStrip(s)
      v == DigitsValue(Unsigned(s), 0)
  IN IF t[1] = "-" THEN 0 - v ELSE v

\* export_option.lower() == 'y'.  lower() maps each character to one or
\* more characters, and "y" and "Y" are the only characters it maps to "y".
LowerIsY(export_option) == export_option \in {<<"y">>, <<"Y">>}

\* The ASCII letters folded to lower case: what the mutant of TextChanged
\* compares.
FoldChar(c) ==
  CASE c = "A" -> "a" [] c = "B" -> "b" [] c = "C" -> "c" [] c = "D" -> "d"
    [] c = "E" -> "e" [] c = "F" -> "f" [] c = "G" -> "g" [] c = "H" -> "h"
    [] c = "I" -> "i" [] c = "J" -> "j" [] c = "K" -> "k" [] c = "L" -> "l"
    [] c = "M" -> "m" [] c = "N" -> "n" [] c = "O" -> "o" [] c = "P" -> "p"
    [] c = "Q" -> "q" [] c = "R" -> "r" [] c = "S" -> "s" [] c = "T" -> "t"
    [] c = "U" -> "u" [] c = "V" -> "v" [] c = "W" -> "w" [] c = "X" -> "x"
    [] c = "Y" -> "y" [] c = "Z" -> "z" [] OTHER -> c

FoldCase(s) == [i \in 1..Len(s) |-> FoldChar(s[i])]

\* The characters UTF-8 encodes in one byte; every other takes two to four.
Ascii ==
  {"<U+0000>", "<U+0001>", "<U+0002>", "<U+0003>", "<U+0004>", "<U+0005>",
   "<U+0006>", "<U+0007>", "<U+0008>", "\t", "\n", "<U+000B>", "\f", "\r",
   "<U+000E>", "<U+000F>", "<U+0010>", "<U+0011>", "<U+0012>", "<U+0013>",
   "<U+0014>", "<U+0015>", "<U+0016>", "<U+0017>", "<U+0018>", "<U+0019>",
   "<U+001A>", "<U+001B>", "<U+001C>", "<U+001D>", "<U+001E>", "<U+001F>",
   " ", "!", "\"", "#", "$", "%", "&", "'", "(", ")", "*", "+", ",", "-",
   ".", "/", "0", "1", "2", "3", "4", "5", "6", "7", "8", "9", ":", ";",
   "<", "=", ">", "?", "@", "A", "B", "C", "D", "E", "F", "G", "H", "I",
   "J", "K", "L", "M", "N", "O", "P", "Q", "R", "S", "T", "U", "V", "W",
   "X", "Y", "Z", "[", "\\", "]", "^", "_", "<U+0060>", "a", "b", "c", "d",
   "e", "f", "g", "h", "i", "j", "k", "l", "m", "n", "o", "p", "q", "r", "s",
   "t", "u", "v", "w", "x", "y", "z", "{", "|", "}", "~", "<U+007F>"}

\* text.replace('"', '""').replace('\n', '\\n')
RECURSIVE CsvEscape(_)
CsvEscape(s) ==
  IF s = <<>> THEN <<>>
  ELSE (CASE Head(s) = "\"" -> <<"\"", "\"">>
          [] Head(s) = "\n" -> <<"\\", "n">>
          [] OTHER -> <<Head(s)>>) \o CsvEscape(Tail(s))

\* A test for None alone, which lets the empty id through: the mutant of
\* Truthy.
TruthyNotNone(v) == v # None

\* `if t_id:` -- neither None nor the empty str.
Truthy(v) == v # None /\ v # <<>>

---------------------------------------------------------------------------
(* Input files and their <t> elements                                      *)

\* One <t> element as ElementTree gives it: t.get('id') and t.text, each a
\* str or None.
Element(id, text) == [id |-> id, text |-> text]

\* A well-formed document: its <t> elements in document order
\* (tree.iter('t')).
OkFile(elems) == [status |-> "ok", elems |-> elems]

\* A path that does not exist: ET.parse raises FileNotFoundError.
NotFoundFile == [status |-> "notfound", elems |-> <<>>]

\* A file that is not well-formed XML: ET.parse raises ParseError.
MalformedFile == [status |-> "malformed", elems |-> <<>>]

SeqsUpTo(P, n) == UNION {[1..k -> P] : k \in 0..n}

\* Every input file over the element pool P.
Files(P) ==
  {OkFile(e) : e \in SeqsUpTo(P, MaxElems)} \cup {NotFoundFile, MalformedFile}

---------------------------------------------------------------------------
(* extract_strings, extract_ids and the dictionaries of the visual script  *)

\* compare_same_xml_files.py, lines 43-45.
TrimmedText(t) == Strip(IF t.text # None THEN t.text ELSE <<>>)

\* compare_same_xml_files_colored.py, line 45: t.text or "".
RawText(t) == IF t.text # None THEN t.text ELSE <<>>

\* A dict that keeps the entry it already has: the mutant of SetItem.
SetItemKeepFirst(d, key, value) == d @@ (key :> value)

\* d[key] = value
SetItem(d, key, value) == (key :> value) @@ d

\* The loop of extract_strings over the elements that are left.
RECURSIVE ScanStrings(_, _, _)
ScanStrings(elems, id_to_text, all_ids) ==
  IF elems = <<>>
  THEN [id_to_text |-> id_to_text, all_ids |-> all_ids]
  ELSE LET t == Head(elems)
           t_id == t.id
       IN IF Truthy(t_id)
          THEN ScanStrings(Tail(elems),
                           SetItem(id_to_text, t_id, TrimmedText(t)),
                           all_ids \cup {t_id})
          ELSE ScanStrings(Tail(elems), id_to_text, all_ids)

\* extract_strings(file_path), for a file that parses.
extract_strings(file) == ScanStrings(file.elems, <<>>, {})

\* The loop of extract_ids.
RECURSIVE ScanIds(_, _)
ScanIds(elems, ids) ==
  IF elems = <<>> THEN ids
  ELSE LET t_id == Head(elems).id
       IN ScanIds(Tail(elems), IF Truthy(t_id) THEN ids \cup {t_id} ELSE ids)

\* extract_ids(file_path), for a file that parses.
extract_ids(file) == ScanIds(file.elems, {})

\* The loops that build strings1 and strings2 in the visual script.
RECURSIVE ScanRaw(_, _)
ScanRaw(elems, strings) ==
  IF elems = <<>> THEN strings
  ELSE LET t == Head(elems)
       IN ScanRaw(Tail(elems),
                  IF Truthy(t.id) THEN SetItem(strings, t.id, RawText(t))
                  ELSE strings)

raw_strings(file) == ScanRaw(file.elems, <<>>)

---------------------------------------------------------------------------
(* sorted(ids, key=int)                                                    *)

\* sorted(..., key=int) raises ValueError unless every id is a literal.
CanSort(S) == \A s \in S : IsIntLiteral(s)

\* The orders a set can be iterated in.
Orderings(S) ==
  {p \in [1..Cardinality(S) -> S] : \A i, j \in DOMAIN p : p[i] = p[j] => i = j}

CharCode(c) == IF c \in Digits THEN DigitVal(c) ELSE 10

RECURSIVE LexLeq(_, _)
LexLeq(a, b) ==
  IF a = <<>> THEN TRUE
  ELSE IF b = <<>> THEN FALSE
  ELSE IF Head(a) = Head(b) THEN LexLeq(Tail(a), Tail(b))
  ELSE CharCode(Head(a)) < CharCode(Head(b))

\* sorted(ids) without key=int, the order of the strings: the mutant of
\* sorted_by_int.
sorted_as_str(S) ==
  {p \in Orderings(S) : \A i, j \in DOMAIN p : i < j => LexLeq(p[i], p[j])}

\* sorted(ids, key=int) of a set of literals.  The sort is stable and a set
\* is iterated in hash order, so ids of equal value come out in any order.
sorted_by_int(S) ==
  {p \in Orderings(S) :
     \A i, j \in DOMAIN p : i < j => IntValue(p[i]) <= IntValue(p[j])}

---------------------------------------------------------------------------
(* The state of one run                                                    *)

VARIABLES
  script,        \* which of the three scripts runs
  argc,          \* len(sys.argv)
  oldFile,       \* the file at sys.argv[1]
  newFile,       \* the file at sys.argv[2]
  pc,            \* how far main() has come
  old_strings,   \* old_strings (strings1 in the visual script)
  new_strings,   \* new_strings (strings2 in the visual script)
  old_ids,       \* old_ids (ids1 in the ID-only script)
  new_ids,       \* new_ids (ids2 in the ID-only script)
  common_ids,    \* common_ids
  changes,       \* changes, the list of change records
  added_ids,     \* added_ids
  removed_ids,   \* removed_ids (ids1 - ids2 in the ID-only script)
  out,           \* what the run has printed, in order
  exitStatus,    \* the exit status of the process, -1 while it runs
  answer,        \* what input() returned, None before it and at end of input
  csv            \* the export file: whether it exists, and what it holds

vars == <<script, argc, oldFile, newFile, pc, old_strings, new_strings,
          old_ids, new_ids, common_ids, changes, added_ids, removed_ids, out,
          exitStatus, answer, csv>>

Scripts == {"plain", "colored", "ids"}

\* The export file: the characters it holds, and whether it ends in a part
\* of the encoding of one more character.
CsvFile(text, torn) == [exists |-> TRUE, text |-> text, torn |-> torn]

NoCsv == [exists |-> FALSE, text |-> <<>>, torn |-> FALSE]

---------------------------------------------------------------------------
(* What the scripts print                                                  *)

\* The message of the except clauses of extract_strings and extract_ids:
\* it names the path it was given.
ErrorMessage(file, path) ==
  [kind |-> "error",
   exc |-> IF file.status = "malformed" THEN "ParseError"
           ELSE "FileNotFoundError",
   path |-> path]

\* The traceback of an exception nothing catches.  path is the input path
\* the exception's message holds: FileNotFoundError's holds the file name,
\* ParseError's and ValueError's hold none.
Traceback(exc, path) == [kind |-> "traceback", exc |-> exc, path |-> path]

\* ET.parse(path) outside any try, as in the visual script.
ParseTraceback(file, path) ==
  IF file.status = "malformed" THEN Traceback("ParseError", "none")
  ELSE Traceback("FileNotFoundError", path)

Summary(n_old, n_new, n_common, n_changed, n_added, n_removed) ==
  [kind |-> "summary", old |-> n_old, new |-> n_new, common |-> n_common,
   changed |-> n_changed, added |-> n_added, removed |-> n_removed]

\* Lines 115-121: one change, with the length line when the lengths differ.
ChangedEntry(change) ==
  [kind |-> "changed", id |-> change.id, old |-> change.old,
   new |-> change.new, length_line |-> Len(change.old) # Len(change.new)]

\* Lines 66-76 of the visual script: side by side, or the character diff.
VisualEntry(change) ==
  [kind |-> "changed", id |-> change.id, old |-> change.old,
   new |-> change.new,
   style |-> IF Len(change.old) < ShortTextLimit
                /\ Len(change.new) < ShortTextLimit
             THEN "side_by_side" ELSE "diff"]

Listed(kind, id, text) == [kind |-> kind, id |-> id, text |-> text]

Header(kind, n) == [kind |-> kind, n |-> n]

Line(kind) == [kind |-> kind]

\* `if len(sys.argv) != 3:` -- the script was not given two paths.
WrongArgs == argc # 3

---------------------------------------------------------------------------
(* The comparison                                                          *)

\* dict.get(key, default)
Get(d, key, default) == IF key \in DOMAIN d THEN d[key] ELSE default

\* old_ids.intersection(new_ids)
CommonIds(ids1, ids2) == ids1 \cap ids2

\* A difference taken the wrong way round: the mutant of Difference.
DifferenceSwapped(ids1, ids2) == ids2 \ ids1

\* ids1 - ids2
Difference(ids1, ids2) == ids1 \ ids2

\* A comparison that ignores case: the mutant of TextChanged.
TextChangedIgnoreCase(old_text, new_text) ==
  FoldCase(old_text) # FoldCase(new_text)

\* old_text != new_text
TextChanged(old_text, new_text) == old_text # new_text

\* A record that holds the new text twice: the mutant of ChangeRecord.
ChangeRecordNewTwice(t_id, old_text, new_text) ==
  [id |-> t_id, old |-> new_text, new |-> new_text]

\* {'id': t_id, 'old': old_text, 'new': new_text}
ChangeRecord(t_id, old_text, new_text) ==
  [id |-> t_id, old |-> old_text, new |-> new_text]

\* The loop over sorted(common_ids, key=int): the change records of the
\* ids that are left, in that order.
RECURSIVE FindChanges(_, _, _)
FindChanges(order, olds, news) ==
  IF order = <<>> THEN <<>>
  ELSE LET t_id == Head(order)
           old_text == Get(olds, t_id, <<>>)
           new_text == Get(news, t_id, <<>>)
           rest == FindChanges(Tail(order), olds, news)
       IN IF TextChanged(old_text, new_text)
          THEN <<ChangeRecord(t_id, old_text, new_text)>> \o rest
          ELSE rest

\* Lines 152-160: the three strings the export writes for one change.
CsvRows(change) ==
  << change.id \o <<",", "O", "l", "d", ",", " ", "\"">>
       \o CsvEscape(change.old) \o <<"\"", "\n">>,
     change.id \o <<",", "N", "e", "w", ",", " ", "\"">>
       \o CsvEscape(change.new) \o <<"\"", "\n">>,
     <<"\n">> >>

\* Line 148.
CsvHeader ==
  <<"I", "D", ",", "T", "y", "p", "e", ",", "T", "e", "x", "t", "\n">>

RECURSIVE CsvBody(_)
CsvBody(chs) ==
  IF chs = <<>> THEN <<>> ELSE CsvRows(Head(chs)) \o CsvBody(Tail(chs))

\* The argument of every f.write() of the export, in order.
CsvWrites(chs) == <<CsvHeader>> \o CsvBody(chs)

RECURSIVE Concat(_)
Concat(strs) == IF strs = <<>> THEN <<>> ELSE Head(strs) \o Concat(Tail(strs))

\* What the file holds once it is written and closed.
CsvText(chs) == Concat(CsvWrites(chs))

\* What the file can hold when writing it fails.  The writes go through a
\* buffer to the file as UTF-8, and the system may take any part of it
\* before the error: the file holds the first k characters, and after them
\* possibly the first bytes of the next one when that takes several.
CutFiles(text) ==
  {CsvFile(SubSeq(text, 1, k), FALSE) : k \in 0..Len(text)}
  \cup {CsvFile(SubSeq(text, 1, k), TRUE) :
          k \in {j \in 0..(Len(text) - 1) : text[j + 1] \notin Ascii}}

---------------------------------------------------------------------------
(* compare_same_xml_files.py                                               *)

\* Lines 58-70: the check of the arguments, which prints the usage line
\* and its example and ends with sys.exit(1), then the two calls of
\* extract_strings.  A file that does not parse prints the message of its
\* except clause and ends with sys.exit(1).
PlainExtract ==
  /\ script = "plain" /\ pc = "start"
  /\ LET printed == out \o <<Line("processing")>>
         old == extract_strings(oldFile)
         new == extract_strings(newFile)
     IN IF WrongArgs
        THEN /\ out' = out \o <<Line("usage"), Line("usage")>>
             /\ pc' = "exited" /\ exitStatus' = 1
             /\ UNCHANGED <<old_strings, old_ids, new_strings, new_ids>>
        ELSE IF oldFile.status # "ok"
        THEN /\ out' = printed \o <<ErrorMessage(oldFile, "old")>>
             /\ pc' = "exited" /\ exitStatus' = 1
             /\ UNCHANGED <<old_strings, old_ids, new_strings, new_ids>>
        ELSE IF newFile.status # "ok"
        THEN /\ old_strings' = old.id_to_text /\ old_ids' = old.all_ids
             /\ out' = printed \o <<ErrorMessage(newFile, "new")>>
             /\ pc' = "exited" /\ exitStatus' = 1
             /\ UNCHANGED <<new_strings, new_ids>>
        ELSE /\ old_strings' = old.id_to_text /\ old_ids' = old.all_ids
             /\ new_strings' = new.id_to_text /\ new_ids' = new.all_ids
             /\ out' = printed
             /\ pc' = "extracted" /\ UNCHANGED exitStatus
  /\ UNCHANGED <<script, argc, oldFile, newFile, common_ids, changes,
                 added_ids, removed_ids, answer, csv>>

\* Lines 72-93: the common ids, the change records in sorted order, the
\* added and the removed ids.  sorted(common_ids, key=int) raises ValueError
\* on an id that is no integer literal, and nothing catches it.
PlainCompare ==
  /\ script = "plain" /\ pc = "extracted"
  /\ common_ids' = CommonIds(old_ids, new_ids)
  /\ IF ~CanSort(common_ids')
     THEN /\ out' = out \o <<Traceback("ValueError", "none")>>
          /\ pc' = "crashed" /\ exitStatus' = 1
          /\ UNCHANGED <<changes, added_ids, removed_ids>>
     ELSE /\ \E order \in sorted_by_int(common_ids') :
               changes' = FindChanges(order, old_strings, new_strings)
          /\ added_ids' = Difference(new_ids, old_ids)
          /\ removed_ids' = Difference(old_ids, new_ids)
          /\ pc' = "compared"
          /\ UNCHANGED <<out, exitStatus>>
  /\ UNCHANGED <<script, argc, oldFile, newFile, old_strings, new_strings,
                 old_ids, new_ids, answer, csv>>

\* Lines 95-124: the summary and the changes.
ReportHead ==
  <<Line("results"),
    Summary(Cardinality(old_ids), Cardinality(new_ids),
            Cardinality(common_ids), Len(changes),
            Cardinality(added_ids), Cardinality(removed_ids))>>
  \o (IF changes # <<>>
      THEN <<Header("changes_header", Len(changes))>>
           \o [i \in 1..Len(changes) |-> ChangedEntry(changes[i])]
      ELSE <<Line("no_changes")>>)

\* Lines 129-131 and 136-138: one line per id, with its text.
Listing(kind, order, strings) ==
  [i \in 1..Len(order) |-> Listed(kind, order[i], strings[order[i]])]

\* Lines 95-138: the report.  The header of the added (removed) ids is
\* printed before sorted(added_ids, key=int) is called, which raises
\* ValueError on an id that is no integer literal.
PlainReport ==
  /\ script = "plain" /\ pc = "compared"
  /\ LET added_header ==
           IF added_ids # {}
           THEN <<Header("added_header", Cardinality(added_ids))>> ELSE <<>>
         removed_header ==
           IF removed_ids # {}
           THEN <<Header("removed_header", Cardinality(removed_ids))>>
           ELSE <<>>
     IN IF added_ids # {} /\ ~CanSort(added_ids)
        THEN /\ out' = out \o ReportHead \o added_header
                         \o <<Traceback("ValueError", "none")>>
             /\ pc' = "crashed" /\ exitStatus' = 1
        ELSE \E added \in sorted_by_int(added_ids) :
               LET upto_added == out \o ReportHead \o added_header
                                   \o Listing("added", added, new_strings)
               IN IF removed_ids # {} /\ ~CanSort(removed_ids)
                  THEN /\ out' = upto_added \o removed_header
                                   \o <<Traceback("ValueError", "none")>>
                       /\ pc' = "crashed" /\ exitStatus' = 1
                  ELSE \E removed \in sorted_by_int(removed_ids) :
                         /\ out' = upto_added \o removed_header
                                     \o Listing("removed", removed, old_strings)
                         /\ pc' = "reported" /\ UNCHANGED exitStatus
  /\ UNCHANGED <<script, argc, oldFile, newFile, old_strings, new_strings,
                 old_ids, new_ids, common_ids, changes, added_ids,
                 removed_ids, answer, csv>>

\* What input() can return.
Answers == {<<"y">>, <<"Y">>, <<"n">>, <<>>, <<"y", "e", "s">>}

\* Lines 140-164 without a change record: main() returns.
PlainFinish ==
  /\ script = "plain" /\ pc = "reported"
  /\ changes = <<>>
  /\ pc' = "done" /\ exitStatus' = 0
  /\ UNCHANGED <<script, argc, oldFile, newFile, old_strings, new_strings,
                 old_ids, new_ids, common_ids, changes, added_ids,
                 removed_ids, out, answer, csv>>

\* Line 142 at the end of standard input: input() prints the prompt and
\* raises EOFError, which nothing catches.
PlainPromptEof ==
  /\ script = "plain" /\ pc = "reported"
  /\ changes # <<>>
  /\ out' = out \o <<Line("prompt"), Traceback("EOFError", "none")>>
  /\ pc' = "crashed" /\ exitStatus' = 1
  /\ UNCHANGED <<script, argc, oldFile, newFile, old_strings, new_strings,
                 old_ids, new_ids, common_ids, changes, added_ids,
                 removed_ids, answer, csv>>

\* Lines 141-143 with an answer that is not 'y' or 'Y'.
PlainDecline ==
  /\ script = "plain" /\ pc = "reported"
  /\ changes # <<>>
  /\ \E ans \in Answers :
       /\ ~LowerIsY(ans)
       /\ answer' = ans
  /\ out' = out \o <<Line("prompt")>>
  /\ pc' = "done" /\ exitStatus' = 0
  /\ UNCHANGED <<script, argc, oldFile, newFile, old_strings, new_strings,
                 old_ids, new_ids, common_ids, changes, added_ids,
                 removed_ids, csv>>

\* Lines 141-162 with the answer 'y' or 'Y': the file is written.
PlainExport ==
  /\ script = "plain" /\ pc = "reported"
  /\ changes # <<>>
  /\ \E ans \in Answers :
       /\ LowerIsY(ans)
       /\ answer' = ans
  /\ csv' = CsvFile(CsvText(changes), FALSE)
  /\ out' = out \o <<Line("prompt"), Line("exported")>>
  /\ pc' = "done" /\ exitStatus' = 0
  /\ UNCHANGED <<script, argc, oldFile, newFile, old_strings, new_strings,
                 old_ids, new_ids, common_ids, changes, added_ids,
                 removed_ids>>

\* Lines 146-164 when open(), a write or the closing of the file raises:
\* the except clause prints the error and main() returns.  open() failing
\* leaves no file; a later failure leaves the file cut at any point, in the
\* middle of a line or of a character too.
PlainExportFails ==
  /\ script = "plain" /\ pc = "reported"
  /\ changes # <<>>
  /\ \E ans \in Answers :
       /\ LowerIsY(ans)
       /\ answer' = ans
  /\ \/ csv' = NoCsv
     \/ csv' \in CutFiles(CsvText(changes))
  /\ out' = out \o <<Line("prompt"), Line("export_error")>>
  /\ pc' = "done" /\ exitStatus' = 0
  /\ UNCHANGED <<script, argc, oldFile, newFile, old_strings, new_strings,
                 old_ids, new_ids, common_ids, changes, added_ids,
                 removed_ids>>

---------------------------------------------------------------------------
(* compare_same_xml_files_colored.py                                       *)

\* Lines 28-50: the check of the arguments, which prints the usage line
\* and ends with sys.exit(1); then both files are parsed outside any try
\* and the two dictionaries are built from the untrimmed texts.  A file
\* that does not parse ends the run with the traceback of the exception
\* (status 1).
ColoredParse ==
  /\ script = "colored" /\ pc = "start"
  /\ IF WrongArgs
     THEN /\ out' = out \o <<Line("usage")>>
          /\ pc' = "exited" /\ exitStatus' = 1
          /\ UNCHANGED <<old_strings, new_strings>>
     ELSE IF oldFile.status # "ok"
     THEN /\ out' = out \o <<ParseTraceback(oldFile, "old")>>
          /\ pc' = "crashed" /\ exitStatus' = 1
          /\ UNCHANGED <<old_strings, new_strings>>
     ELSE IF newFile.status # "ok"
     THEN /\ out' = out \o <<ParseTraceback(newFile, "new")>>
          /\ pc' = "crashed" /\ exitStatus' = 1
          /\ UNCHANGED <<old_strings, new_strings>>
     ELSE /\ old_strings' = raw_strings(oldFile)
          /\ new_strings' = raw_strings(newFile)
          /\ pc' = "extracted"
          /\ UNCHANGED <<out, exitStatus>>
  /\ UNCHANGED <<script, argc, oldFile, newFile, old_ids, new_ids, common_ids,
                 changes, added_ids, removed_ids, answer, csv>>

\* Lines 52-80: the header, one entry per changed common id in sorted
\* order, and the count.  The header is printed before
\* sorted(common_ids, key=int) is called.
ColoredReport ==
  /\ script = "colored" /\ pc = "extracted"
  /\ common_ids' = CommonIds(DOMAIN old_strings, DOMAIN new_strings)
  /\ IF ~CanSort(common_ids')
     THEN /\ out' = out \o <<Line("visual_header"),
                             Traceback("ValueError", "none")>>
          /\ pc' = "crashed" /\ exitStatus' = 1
          /\ UNCHANGED changes
     ELSE /\ \E order \in sorted_by_int(common_ids') :
               changes' = FindChanges(order, old_strings, new_strings)
          /\ out' = out \o <<Line("visual_header")>>
                      \o [i \in 1..Len(changes') |-> VisualEntry(changes'[i])]
                      \o <<Header("changed_count", Len(changes'))>>
          /\ pc' = "done" /\ exitStatus' = 0
  /\ UNCHANGED <<script, argc, oldFile, newFile, old_strings, new_strings,
                 old_ids, new_ids, added_ids, removed_ids, answer, csv>>

---------------------------------------------------------------------------
(* compare_xml_ids.py                                                      *)

\* Lines 22-30: the check of the arguments, which prints the usage line
\* and ends with sys.exit(1), then the two calls of extract_ids.
IdsExtract ==
  /\ script = "ids" /\ pc = "start"
  /\ IF WrongArgs
     THEN /\ out' = out \o <<Line("usage")>>
          /\ pc' = "exited" /\ exitStatus' = 1
          /\ UNCHANGED <<old_ids, new_ids>>
     ELSE IF oldFile.status # "ok"
     THEN /\ out' = out \o <<ErrorMessage(oldFile, "old")>>
          /\ pc' = "exited" /\ exitStatus' = 1
          /\ UNCHANGED <<old_ids, new_ids>>
     ELSE IF newFile.status # "ok"
     THEN /\ old_ids' = extract_ids(oldFile)
          /\ out' = out \o <<ErrorMessage(newFile, "new")>>
          /\ pc' = "exited" /\ exitStatus' = 1
          /\ UNCHANGED new_ids
     ELSE /\ old_ids' = extract_ids(oldFile)
          /\ new_ids' = extract_ids(newFile)
          /\ pc' = "extracted"
          /\ UNCHANGED <<out, exitStatus>>
  /\ UNCHANGED <<script, argc, oldFile, newFile, old_strings, new_strings,
                 common_ids, changes, added_ids, removed_ids, answer, csv>>

\* Lines 33-40: the ids of the first file that the second lacks, sorted,
\* or the success message.
IdsReport ==
  /\ script = "ids" /\ pc = "extracted"
  /\ removed_ids' = Difference(old_ids, new_ids)
  /\ IF ~CanSort(removed_ids')
     THEN /\ out' = out \o <<Traceback("ValueError", "none")>>
          /\ pc' = "crashed" /\ exitStatus' = 1
     ELSE /\ \E missing_ids \in sorted_by_int(removed_ids') :
               out' = out \o
                 (IF missing_ids # <<>>
                  THEN <<Header("missing_header", Len(missing_ids))>>
                       \o [i \in 1..Len(missing_ids) |->
                             [kind |-> "missing", id |-> missing_ids[i]]]
                  ELSE <<Line("all_exist")>>)
          /\ pc' = "done" /\ exitStatus' = 0
  /\ UNCHANGED <<script, argc, oldFile, newFile, old_strings, new_strings,
                 old_ids, new_ids, common_ids, changes, added_ids, answer,
                 csv>>

---------------------------------------------------------------------------
(* The runs                                                                *)

\* Elements that differ in their texts: a missing and an empty id, texts
\* with and without surrounding whitespace, a missing and a blank text, and
\* an id that is no integer literal.
TextElements ==
  {Element(None, <<"a">>), Element(<<>>, <<"a">>),
   Element(<<"1">>, <<"a">>), Element(<<"1">>, <<" ", "a", "<U+2003>">>),
   Element(<<"1">>, None), Element(<<"1">>, <<" ">>),
   Element(<<"x">>, <<"a">>)}

\* Elements for the order of the listings and for the export: ids whose
\* numeric and string order differ ("2", "10"), two ids of one value ("2",
\* "02"), an id that is no integer literal, and two ids with two texts
\* each, which differ in case or hold a double quote and a character
\* outside ASCII.
OrderElements ==
  {Element(<<"2">>, <<"a">>), Element(<<"2">>, <<"A">>),
   Element(<<"1", "0">>, <<"a">>),
   Element(<<"1", "0">>, <<"\"", "<U+00E9>">>),
   Element(<<"0", "2">>, <<"a">>), Element(<<"x">>, <<"a">>)}

\* Elements for the sets of ids: three ids that are integer literals, one
\* that is none, an empty id, and one id with two texts that differ in
\* case.
SetElements ==
  {Element(<<"2">>, <<"a">>), Element(<<"2">>, <<"A">>),
   Element(<<"1", "0">>, <<"a">>), Element(<<"0", "2">>, <<"a">>),
   Element(<<"x">>, <<"a">>), Element(<<>>, <<"a">>)}

\* len(sys.argv) of a run: the script's name with one, two or three
\* arguments.
ArgCounts == {2, 3, 4}

\* The files of a run that is not given two paths, which opens none.
UnreadFiles(P) == {f \in Files(P) : Len(f.elems) <= 1}

\* The state main() starts in, with both files drawn over the pool P.
InitOver(P) ==
  /\ script \in Scripts
  /\ argc \in ArgCounts
  /\ oldFile \in (IF argc = 3 THEN Files(P) ELSE UnreadFiles(P))
  /\ newFile \in (IF argc = 3 THEN Files(P) ELSE UnreadFiles(P))
  /\ pc = "start"
  /\ old_strings = <<>> /\ new_strings = <<>>
  /\ old_ids = {} /\ new_ids = {}
  /\ common_ids = {} /\ added_ids = {} /\ removed_ids = {}
  /\ changes = <<>>
  /\ out = <<>>
  /\ exitStatus = -1
  /\ answer = None
  /\ csv = NoCsv

Init == InitOver(TextElements)

InitOrder == InitOver(OrderElements)

InitSets == InitOver(SetElements)

Next ==
  \/ PlainExtract
  \/ PlainCompare
  \/ PlainReport
  \/ PlainFinish
  \/ PlainPromptEof
  \/ PlainDecline
  \/ PlainExport
  \/ PlainExportFails
  \/ ColoredParse
  \/ ColoredReport
  \/ IdsExtract
  \/ IdsReport

\* Runs over files that differ in their texts.
Spec == Init /\ [][Next]_vars

\* Runs over files whose ids differ in their order.
SpecOrder == InitOrder /\ [][Next]_vars

\* Runs over files that differ in their sets of ids.
SpecSets == InitSets /\ [][Next]_vars

---------------------------------------------------------------------------
(* What the properties speak of                                            *)

\* The ids of a file as the specification defines them: the ids of the
\* <t> elements that bear a non-empty id.
IdsOf(file) ==
  {file.elems[i].id :
     i \in {j \in DOMAIN file.elems :
              file.elems[j].id # None /\ Len(file.elems[j].id) > 0}}

\* The text of the last <t> element of the file with this id, a missing
\* text read as the empty one.
LastText(file, id) ==
  LET last == CHOOSE i \in DOMAIN file.elems :
                /\ file.elems[i].id = id
                /\ \A j \in DOMAIN file.elems : j > i => file.elems[j].id # id
      text == file.elems[last].text
  IN IF text = None THEN <<>> ELSE text

\* t is raw without its leading and trailing whitespace.
IsTrimOf(t, raw) ==
  /\ t = <<>> \/ (t[1] \notin Whitespace /\ t[Len(t)] \notin Whitespace)
  /\ \E a \in 0..Len(raw) : \E b \in a..Len(raw) :
       /\ t = SubSeq(raw, a + 1, b)
       /\ \A i \in 1..a : raw[i] \in Whitespace
       /\ \A i \in (b + 1)..Len(raw) : raw[i] \in Whitespace

\* The printed lines of one kind, in the order they were printed.
Printed(kind) == SelectSeq(out, LAMBDA e : e.kind = kind)

HasPrinted(kind) == \E i \in DOMAIN out : out[i].kind = kind

\* The kinds of output that are part of a comparison report.
ReportKinds ==
  {"results", "summary", "changes_header", "changed", "no_changes",
   "added_header", "added", "removed_header", "removed", "visual_header",
   "changed_count", "prompt", "exported", "export_error",
   "missing_header", "missing", "all_exist"}

\* The plain script has computed its comparison (lines 72-93 are done).
PlainCompared ==
  /\ script = "plain"
  /\ pc \in {"compared", "reported", "done"} \/ HasPrinted("results")

Ended == pc \in {"done", "exited", "crashed"}

\* The run was given its two paths.
GivenTwoFiles == argc = 3

BothParse == oldFile.status = "ok" /\ newFile.status = "ok"

ChangedIds == {changes[i].id : i \in DOMAIN changes}

ChangeSet == {changes[i] : i \in DOMAIN changes}

---------------------------------------------------------------------------
(* C1 *)

\* C1: once the plain script has compared two files, common_ids is the
\* intersection of the two files' id sets, added_ids is new minus old and
\* removed_ids is old minus new; the three are pairwise disjoint and their
\* union is the union of the two id sets; and the counts of every printed
\* summary are the sizes of the two id sets and of these three sets.
C1_SetsPartitionIds ==
  LET O == IdsOf(oldFile)
      N == IdsOf(newFile)
  IN /\ PlainCompared =>
          /\ common_ids = O \cap N
          /\ added_ids = N \ O
          /\ removed_ids = O \ N
          /\ common_ids \cap added_ids = {}
          /\ common_ids \cap removed_ids = {}
          /\ added_ids \cap removed_ids = {}
          /\ common_ids \cup added_ids \cup removed_ids = O \cup N
     /\ \A i \in DOMAIN out :
          out[i].kind = "summary" =>
            /\ out[i].old = Cardinality(O)
            /\ out[i].new = Cardinality(N)
            /\ out[i].common = Cardinality(O \cap N)
            /\ out[i].added = Cardinality(N \ O)
            /\ out[i].removed = Cardinality(O \ N)

\* A finished plain run whose three sets are all non-empty and whose
\* summary was printed.
C1_Witness ==
  /\ script = "plain" /\ pc = "done"
  /\ common_ids # {} /\ added_ids # {} /\ removed_ids # {}
  /\ HasPrinted("summary")

---------------------------------------------------------------------------
(* C2 *)

\* C2: once the plain script has compared two files, an id has a change
\* record if and only if it is a common id whose extracted old text is not
\* exactly the extracted new text; the record holds the old file's text as
\* old and the new file's as new; no id has two records; and no added or
\* removed id has one.
C2_ChangeRecordIffTextDiffers ==
  PlainCompared =>
    /\ \A id \in old_ids \cup new_ids :
         (id \in ChangedIds) <=>
           (id \in common_ids /\ old_strings[id] # new_strings[id])
    /\ \A i \in DOMAIN changes :
         /\ changes[i].old = old_strings[changes[i].id]
         /\ changes[i].new = new_strings[changes[i].id]
         /\ changes[i].id \notin added_ids \cup removed_ids
    /\ \A i, j \in DOMAIN changes : changes[i].id = changes[j].id => i = j

\* A compared plain run with a record whose texts differ only in case,
\* beside an added id.
C2_Witness ==
  /\ PlainCompared
  /\ added_ids # {}
  /\ \E i \in DOMAIN changes :
       /\ changes[i].old # changes[i].new
       /\ FoldCase(changes[i].old) = FoldCase(changes[i].new)

---------------------------------------------------------------------------
(* C3 *)

\* The common ids whose texts in the two files differ by more than leading
\* and trailing whitespace.
ReallyChanged ==
  {id \in IdsOf(oldFile) \cap IdsOf(newFile) :
     Strip(LastText(oldFile, id)) # Strip(LastText(newFile, id))}

\* C3: in a finished run of the plain or of the visual script, an id of
\* both files whose two texts differ only in leading or trailing whitespace
\* (a blank text against a missing one included) is not printed as changed
\* and is not counted in the number of changed strings.
C3_WhitespaceOnlyIsNoChange ==
  (script \in {"plain", "colored"} /\ pc = "done") =>
    /\ \A i \in DOMAIN out :
         out[i].kind = "changed" => out[i].id \in ReallyChanged
    /\ \A i \in DOMAIN out :
         /\ out[i].kind = "summary" =>
              out[i].changed = Cardinality(ReallyChanged)
         /\ out[i].kind = "changed_count" =>
              out[i].n = Cardinality(ReallyChanged)

---------------------------------------------------------------------------
(* C4 *)

\* The input path that fails first.
FirstFailing == IF oldFile.status # "ok" THEN "old" ELSE "new"

\* C4: in each of the three scripts, when either of the two input files
\* the run is given does not exist or is not well-formed XML, the run ends
\* with exit status 1 after a message that names the failing file, and
\* prints no part of the comparison report.
C4_BadFileAbortsNamingIt ==
  (GivenTwoFiles /\ ~BothParse /\ pc # "start") =>
    /\ Ended /\ exitStatus = 1
    /\ \E i \in DOMAIN out :
         out[i].kind \in {"error", "traceback"} /\ out[i].path = FirstFailing
    /\ \A i \in DOMAIN out : out[i].kind \notin ReportKinds

---------------------------------------------------------------------------
(* C5 *)

\* The ids of the printed lines of one kind, in the order printed.
PrintedIds(kind) ==
  LET lines == Printed(kind) IN [i \in DOMAIN lines |-> lines[i].id]

\* The listings of a run that are keyed by id.
ListingKinds == {"changed", "added", "removed", "missing"}

AllIdsAreIntegers == CanSort(IdsOf(oldFile) \cup IdsOf(newFile))

\* C5 as claimed: when every id is an integer literal, each listing is in
\* strictly ascending order of the ids' integer values.
C5_StrictlyAscending ==
  AllIdsAreIntegers =>
    \A kind \in ListingKinds :
      LET ids == PrintedIds(kind)
      IN \A i, j \in DOMAIN ids : i < j => IntValue(ids[i]) < IntValue(ids[j])

\* C5, amended: when every id is an integer literal, each listing (changed,
\* added, removed, missing) is in ascending order of the ids' integer
\* values, not of the strings, and strictly ascending wherever two listed
\* ids differ in value; two ids of one value, such as "2" and "02", are
\* listed next to each other in either order.
C5_AscendingByValue ==
  AllIdsAreIntegers =>
    \A kind \in ListingKinds :
      LET ids == PrintedIds(kind)
      IN \A i, j \in DOMAIN ids :
           i < j => /\ IntValue(ids[i]) <= IntValue(ids[j])
                    /\ ids[i] # ids[j]

\* A listing that shows "2" before "10": ascending by value where the
\* order of the strings is the other way round.
C5_Witness ==
  /\ AllIdsAreIntegers
  /\ \E kind \in ListingKinds :
       LET ids == PrintedIds(kind)
       IN \E i \in DOMAIN ids :
            /\ i + 1 \in DOMAIN ids
            /\ IntValue(ids[i]) < IntValue(ids[i + 1])
            /\ ~LexLeq(ids[i], ids[i + 1])

---------------------------------------------------------------------------
(* C6 *)

\* C6: a run of the plain script that meets an id that is no integer
\* literal never prints part of the report and then aborts: a run the
\* ValueError of int() ends has printed nothing of the report.
C6_InvalidIdNeverCutsReport ==
  (script = "plain" /\ pc = "crashed"
     /\ out[Len(out)] = Traceback("ValueError", "none")) =>
    \A i \in DOMAIN out : out[i].kind \notin ReportKinds

---------------------------------------------------------------------------
(* C7 *)

\* The comparison of the same two files with old and new exchanged: what
\* lines 69-93 compute from (newFile, oldFile).
SwappedRun ==
  LET old == extract_strings(newFile)
      new == extract_strings(oldFile)
      common == CommonIds(old.all_ids, new.all_ids)
      order == CHOOSE o \in sorted_by_int(common) : TRUE
      found == FindChanges(order, old.id_to_text, new.id_to_text)
  IN [common_ids |-> common,
      added_ids |-> Difference(new.all_ids, old.all_ids),
      removed_ids |-> Difference(old.all_ids, new.all_ids),
      changes |-> {found[i] : i \in DOMAIN found}]

\* C7: once the plain script has compared (old, new), the comparison of
\* (new, old) has the same common ids, the removed ids as its added ids and
\* the added ids as its removed ids, the same changed ids, and for each
\* changed id the record with old and new text exchanged.
C7_SwapExchangesAddedAndRemoved ==
  PlainCompared =>
    LET swapped == SwappedRun
    IN /\ swapped.common_ids = common_ids
       /\ swapped.added_ids = removed_ids
       /\ swapped.removed_ids = added_ids
       /\ {r.id : r \in swapped.changes} = ChangedIds
       /\ \A r \in ChangeSet :
            [id |-> r.id, old |-> r.new, new |-> r.old] \in swapped.changes

\* A compared plain run with a change record, an added id and no removed
\* id: the three differ from those of the exchanged comparison.
C7_Witness ==
  /\ PlainCompared
  /\ changes # <<>> /\ added_ids # {} /\ removed_ids = {}

---------------------------------------------------------------------------
(* C8 *)

\* The ids of the first file that the second lacks.
MissingFromSecond == IdsOf(oldFile) \ IdsOf(newFile)

\* What a run of the ID-only script prints when it lists the missing ids:
\* the success message and nothing else when none is missing, and
\* otherwise their number and then each missing id once.
PrintsMissingIds ==
  IF MissingFromSecond = {}
  THEN out = <<Line("all_exist")>>
  ELSE /\ Len(out) = 1 + Cardinality(MissingFromSecond)
       /\ out[1] = Header("missing_header", Cardinality(MissingFromSecond))
       /\ \A i \in 2..Len(out) : out[i].kind = "missing"
       /\ {out[i].id : i \in 2..Len(out)} = MissingFromSecond

\* C8 as claimed: every run of the ID-only script given two files that parse
\* ends having printed exactly the ids of the first file that the second
\* lacks, each once, with their number, or the success message when there
\* is none.
C8_EveryRunPrintsMissingIds ==
  (script = "ids" /\ GivenTwoFiles /\ BothParse /\ Ended) => PrintsMissingIds

\* C8, amended: a run of the ID-only script given two files in which every
\* id missing from the second file is an integer literal prints exactly
\* those ids, each once, with their number, or the success message if and
\* only if there is none; the ids the second file alone holds play no
\* part; and a run with a missing id that is no integer literal is ended by
\* the ValueError of int() with nothing printed.
C8_PrintsIdsMissingFromSecond ==
  (script = "ids" /\ GivenTwoFiles) =>
    /\ (BothParse /\ Ended /\ CanSort(MissingFromSecond)) =>
         (pc = "done" /\ PrintsMissingIds)
    /\ HasPrinted("all_exist") => (pc = "done" /\ MissingFromSecond = {})
    /\ (BothParse /\ Ended /\ ~CanSort(MissingFromSecond)) =>
         /\ pc = "crashed" /\ exitStatus = 1
         /\ out = <<Traceback("ValueError", "none")>>

\* A finished ID-only run that lists two missing ids while the second file
\* holds an id the first lacks, and one file holds an element with an
\* empty id.
C8_Witness ==
  /\ script = "ids" /\ pc = "done"
  /\ Cardinality(MissingFromSecond) = 2
  /\ Len(Printed("missing")) = 2
  /\ IdsOf(newFile) \ IdsOf(oldFile) # {}

---------------------------------------------------------------------------
(* C9 *)

\* What extract_strings owes for one file: the keys of the mapping are the
\* id set, which is the ids of the elements bearing a non-empty id, and
\* each id maps to the trimmed text of its last element.
ExtractedFrom(file, strings, ids) ==
  /\ DOMAIN strings = ids
  /\ ids = IdsOf(file)
  /\ \A id \in ids : IsTrimOf(strings[id], LastText(file, id))

\* C9: after the plain script, given two files, has extracted a file, the
\* keys of its id-to-text mapping are its id set (so every added or removed
\* id has a text), elements with a missing or empty id are in neither, and an
\* id that occurs more than once maps to the trimmed text of its last
\* occurrence.
C9_MappingKeysAreIdsLastWins ==
  (script = "plain" /\ GivenTwoFiles) =>
    /\ (pc # "start" /\ oldFile.status = "ok") =>
         ExtractedFrom(oldFile, old_strings, old_ids)
    /\ (pc \notin {"start", "exited"}) =>
         /\ ExtractedFrom(newFile, new_strings, new_ids)
         /\ \A id \in added_ids : id \in DOMAIN new_strings
         /\ \A id \in removed_ids : id \in DOMAIN old_strings

\* The old file holds one id twice with texts that differ once trimmed,
\* the new file an element without a usable id, and both are extracted.
C9_Witness ==
  /\ script = "plain" /\ pc = "extracted"
  /\ Len(oldFile.elems) = 2
  /\ oldFile.elems[1].id = oldFile.elems[2].id
  /\ old_ids # {}
  /\ TrimmedText(oldFile.elems[1]) # TrimmedText(oldFile.elems[2])
  /\ old_strings[oldFile.elems[2].id] = TrimmedText(oldFile.elems[2])
  /\ \E i \in DOMAIN newFile.elems : newFile.elems[i].id \in {None, <<>>}

---------------------------------------------------------------------------
(* C10 *)

\* C10: in the plain script the export prompt comes after the whole report;
\* a run that has ended has asked the prompt if and only if there is a
\* change record; the file is written only on the answer 'y' or 'Y' and
\* then holds the header and, per change record in report order, an Old
\* row, a New row and an empty line; a failure to write is reported and the
\* run still ends with status 0.
C10_ExportFollowsReport ==
  (script = "plain" /\ BothParse) =>
    /\ \A i \in DOMAIN out :
         out[i].kind = "prompt" =>
           /\ SubSeq(out, 1, i - 1) \in
                {<<Line("processing")>> \o ReportHead
                   \o (IF added_ids # {}
                       THEN <<Header("added_header", Cardinality(added_ids))>>
                              \o Listing("added", a, new_strings)
                       ELSE <<>>)
                   \o (IF removed_ids # {}
                       THEN <<Header("removed_header",
                                     Cardinality(removed_ids))>>
                              \o Listing("removed", r, old_strings)
                       ELSE <<>>) :
                 a \in Orderings(added_ids), r \in Orderings(removed_ids)}
    /\ pc \in {"done", "crashed"} => (HasPrinted("prompt") <=> changes # <<>>)
    /\ csv.exists => answer \in {<<"y">>, <<"Y">>}
    /\ HasPrinted("exported") => csv = CsvFile(CsvText(changes), FALSE)
    /\ HasPrinted("export_error") => (pc = "done" /\ exitStatus = 0)

===========================================================================
